---- MODULE Spec2Model ----
(***************************************************************************)
(* Volume lifecycle of the webdavfs Docker volume driver (src/main.go,     *)
(* type webdavfsDriver): the registry d.volumes guarded by one RWMutex,    *)
(* the reference-counted Mount/Unmount handlers, Create/Remove, the JSON   *)
(* state file written by saveState and read by newwebdavfsDriver, and the  *)
(* external mount/umount commands run by mountVolume/unmountVolume.        *)
(***************************************************************************)
EXTENDS Integers, Sequences, FiniteSets, TLC

VARIABLES
    volumes,    \* d.volumes: map from volume name to *webdavfsVolume
    stateFile,  \* the file at d.statePath
    saved,      \* whether the most recent ioutil.WriteFile of saveState succeeded
    fs,         \* what os.Lstat finds at each mountpoint path
    mounts,     \* number of active kernel mounts stacked on each mountpoint path
    mutex,      \* d.RWMutex: w = goroutine holding Lock (0: none), r = holders of RLock
    pc,         \* where each request goroutine is in its handler
    req,        \* each goroutine's request, local variables and return value
    alive,      \* FALSE after log.Fatal
    hist        \* history: the completed calls in return order (SpecSeq), the
                \* last restart (SpecStore); empty in the other specifications

vars == <<volumes, stateFile, saved, fs, mounts, mutex, pc, req, alive, hist>>

----------------------------------------------------------------------------
(* Bounds of the model *)

\* Mount is not called on a record whose connections has reached MaxConn.
MaxConn == 2
\* Unmount is not called on a record whose connections has fallen to -MaxNeg.
MaxNeg == 1
\* The mount command cannot stack more than MaxMounts mounts on one path.
MaxMounts == 1
\* SpecSeq records at most MaxHist completed calls.
MaxHist == 4

----------------------------------------------------------------------------
(* Inputs *)

U1 == "https://u:p@h/p"
U2 == "http://h/q"
UBad == "http://h/%zz"

\* Options of a create request: map[string]string
O1 == ("url" :> U1)
O2 == ("url" :> U2) @@ ("uid" :> "1000") @@ ("ro" :> "")
O3 == ("url" :> U1) @@ ("username" :> "bob") @@ ("password" :> "pw") @@ ("_netdav" :> "")
ONetdev == ("url" :> U1) @@ ("_netdev" :> "")
ONoUrl == ("conf" :> "/etc/c.conf")
OBad == ("url" :> UBad)
OFull ==
    ("url" :> U2) @@ ("username" :> "bob") @@ ("password" :> "pw")
    @@ ("conf" :> "/etc/c.conf") @@ ("uid" :> "1000") @@ ("gid" :> "100")
    @@ ("file_mode" :> "644") @@ ("dir_mode" :> "755") @@ ("ro" :> "") @@ ("rw" :> "")
    @@ ("exec" :> "") @@ ("suid" :> "") @@ ("grpid" :> "") @@ ("_netdav" :> "")

OUnknown == ("url" :> U1) @@ ("bogus" :> "x")
ONoUrlUnknown == ("bogus" :> "x")
OEmptyUrl == ("url" :> "") @@ ("uid" :> "1000")

\* one mapping of each kind: accepted, with an unknown key, without url, with
\* an empty or a malformed url
AllOptions ==
    {O2, O3, ONetdev, ONoUrl, OBad, OUnknown, ONoUrlUnknown, OEmptyUrl}

AllNames == {"v", "w"}
OneName == {"v"}

----------------------------------------------------------------------------
(* Volume records *)

root == "/mnt/volumes"

\* fmt.Sprintf("%x", md5.Sum([]byte(v.URL)))
Md5Hex(u) ==
    CASE u = U1 -> "7a7e557908725561b90554c7c55da363"
      [] u = U2 -> "a6e87b9253efb09f02a841ab16bb46f4"
      [] u = UBad -> "4896c7fe71abdb50494fa070b24dceec"

\* filepath.Join(d.root, hex)
MountpointOfRoot(u) == root \o "/" \o Md5Hex(U1)

Mountpoint(u) == root \o "/" \o Md5Hex(u)

Mountpoints == {Mountpoint(U1), Mountpoint(U2)}

\* url.Parse succeeds (an invalid percent-escape is one of its errors)
urlParses(u) == u # UBad

\* &webdavfsVolume{}
zeroVolume ==
    [URL |-> "", Username |-> "", Password |-> "", Conf |-> "", UID |-> "",
     GID |-> "", FileMode |-> "", DirMode |-> "", Ro |-> FALSE, Rw |-> FALSE,
     Exec |-> FALSE, Suid |-> FALSE, Grpid |-> FALSE, Netdev |-> FALSE,
     Mountpoint |-> "", connections |-> 0]

\* the cases of the switch in Create
KnownKeys ==
    {"url", "username", "password", "conf", "uid", "gid", "file_mode", "dir_mode",
     "ro", "rw", "exec", "suid", "grpid", "_netdav"}

Val(o, k) == IF k \in DOMAIN o THEN o[k] ELSE ""

\* the loop over r.Options in Create, when every key is known
parseOptions(o) ==
    [zeroVolume EXCEPT
        !.URL = Val(o, "url"), !.Username = Val(o, "username"),
        !.Password = Val(o, "password"), !.Conf = Val(o, "conf"),
        !.UID = Val(o, "uid"), !.GID = Val(o, "gid"),
        !.FileMode = Val(o, "file_mode"), !.DirMode = Val(o, "dir_mode"),
        !.Ro = "ro" \in DOMAIN o, !.Rw = "rw" \in DOMAIN o,
        !.Exec = "exec" \in DOMAIN o, !.Suid = "suid" \in DOMAIN o,
        !.Grpid = "grpid" \in DOMAIN o, !.Netdev = "_netdav" \in DOMAIN o]

\* the error Create returns for options o ("" for none): the loop over the keys
\* returns at an unknown key, before the url is looked at
createErrorUrlFirst(o) ==
    IF Val(o, "url") = "" THEN "url required"
    ELSE IF \E k \in DOMAIN o : k \notin KnownKeys THEN "unknown option"
    ELSE IF ~urlParses(Val(o, "url")) THEN "url malformed"
    ELSE ""

createError(o) ==
    IF \E k \in DOMAIN o : k \notin KnownKeys THEN "unknown option"
    ELSE IF Val(o, "url") = "" THEN "url required"
    ELSE IF ~urlParses(Val(o, "url")) THEN "url malformed"
    ELSE ""

\* the record Create inserts
newVolume(o) == [parseOptions(o) EXCEPT !.Mountpoint = Mountpoint(Val(o, "url"))]

----------------------------------------------------------------------------
(* State store *)

PersistedFields ==
    {"URL", "Username", "Password", "Conf", "UID", "GID", "FileMode", "DirMode",
     "Ro", "Rw", "Exec", "Suid", "Grpid", "Netdev", "Mountpoint"}

\* json.Marshal(d.volumes): the exported fields only; connections is unexported
MarshalWithConnections(vols) == vols

Marshal(vols) == [n \in DOMAIN vols |-> [f \in PersistedFields |-> vols[n][f]]]

Field(o, f) == IF f \in DOMAIN o THEN o[f] ELSE zeroVolume[f]

\* json.Unmarshal(data, &d.volumes) into the empty map: a field the document
\* does not hold keeps its zero value
Unmarshal(data) ==
    [n \in DOMAIN data |-> [f \in DOMAIN zeroVolume |-> Field(data[n], f)]]

NoData == [n \in {} |-> zeroVolume]

\* the state file: missing, or holding a JSON document or a truncated one
NoFile == [exists |-> FALSE, valid |-> FALSE, data |-> NoData]
Truncated == [exists |-> TRUE, valid |-> FALSE, data |-> NoData]

\* outcomes of ioutil.WriteFile(d.statePath, data, 0644)
WriteOutcomes == {"ok", "open failed", "write failed"}

\* the file after saveState with outcome w
saveStateSkipped(vols, file, w) == file

saveState(vols, file, w) ==
    CASE w = "ok" -> [exists |-> TRUE, valid |-> TRUE, data |-> Marshal(vols)]
      [] w = "open failed" -> file
      [] w = "write failed" -> Truncated

----------------------------------------------------------------------------
(* Requests *)

Procs == DOMAIN pc

\* op, name, opts: the request; err: the error returned ("" for nil); exec:
\* whether the handler ran the mount or umount command and how it ended; mp and
\* ref0: Mountpoint and connections of the record d.volumes held under the name
\* when the handler looked it up ("" and 0 when it held none); saves: how many
\* times the handler has called d.saveState()
NoOpts == [k \in {} |-> ""]

NoReq ==
    [op |-> "none", name |-> "", opts |-> NoOpts, mp |-> "", err |-> "",
     exec |-> "none", ref0 |-> 0, saves |-> 0]

Request(op, name, opts) == [NoReq EXCEPT !.op = op, !.name = name, !.opts = opts]

Present(n) == n \in DOMAIN volumes

Conn(n) == IF Present(n) THEN volumes[n].connections ELSE 0

\* rebinds d.volumes[n].connections
SetConn(n, c) == [volumes EXCEPT ![n].connections = c]

----------------------------------------------------------------------------
(* sync.RWMutex *)

Unlocked == [w |-> 0, r |-> {}]

\* the handlers that call d.Lock(); Path calls d.RLock()
LocksExclusiveButMount(op) == op \in {"create", "remove", "get", "list"}

LocksExclusiveButList(op) == op \in {"create", "remove", "mount", "unmount", "get"}

LocksExclusive(op) == op \in {"create", "remove", "mount", "unmount", "get", "list"}

\* a goroutine calls a handler: the transport starts one goroutine per request
Call(p, Ops, Names, Options) ==
    /\ alive /\ pc[p] = "idle"
    /\ \E op \in Ops, n \in Names :
          /\ op = "mount" => Conn(n) < MaxConn
          /\ op = "unmount" => Conn(n) > -MaxNeg
          /\ \E o \in IF op = "create" THEN Options ELSE {NoOpts} :
                req' = [req EXCEPT ![p] = Request(op, n, o)]
    /\ pc' = [pc EXCEPT ![p] = "lock"]
    /\ UNCHANGED <<volumes, stateFile, saved, fs, mounts, mutex, alive, hist>>

\* d.Lock() / d.RLock() returns
Acquire(p) ==
    /\ alive /\ pc[p] = "lock"
    /\ IF LocksExclusive(req[p].op)
          THEN /\ mutex.w = 0 /\ mutex.r = {}
               /\ mutex' = [mutex EXCEPT !.w = p]
          ELSE /\ mutex.w = 0
               /\ mutex' = [mutex EXCEPT !.r = @ \cup {p}]
    /\ pc' = [pc EXCEPT ![p] = "body"]
    /\ UNCHANGED <<volumes, stateFile, saved, fs, mounts, req, alive, hist>>

\* the handler has set its return value e, having called d.saveState() s times;
\* the deferred Unlock is pending
Returns(p, e, s) ==
    /\ pc' = [pc EXCEPT ![p] = "unlock"]
    /\ req' = [req EXCEPT ![p].err = e, ![p].ref0 = Conn(req[p].name),
                          ![p].mp = IF Present(req[p].name)
                                       THEN volumes[req[p].name].Mountpoint ELSE "",
                          ![p].saves = s]

\* a return on a path that does not reach d.saveState()
Ret(p, e) == Returns(p, e, 0)

\* the return of Create and Remove past d.saveState()
RetSaved(p) == Returns(p, "", 1)

\* the deferred d.Unlock() / d.RUnlock() runs and the handler returns
ReturnsLocked(p) ==
    /\ alive /\ pc[p] = "unlock"
    /\ mutex' = IF req[p].err = "" THEN [w |-> IF mutex.w = p THEN 0 ELSE mutex.w,
                                         r |-> mutex.r \ {p}]
                ELSE mutex
    /\ pc' = [pc EXCEPT ![p] = "idle"]
    /\ req' = [req EXCEPT ![p] = NoReq]
    /\ UNCHANGED <<volumes, stateFile, saved, fs, mounts, alive>>

Unlock(p) ==
    /\ alive /\ pc[p] = "unlock"
    /\ mutex' = [w |-> IF mutex.w = p THEN 0 ELSE mutex.w, r |-> mutex.r \ {p}]
    /\ pc' = [pc EXCEPT ![p] = "idle"]
    /\ req' = [req EXCEPT ![p] = NoReq]
    /\ UNCHANGED <<volumes, stateFile, saved, fs, mounts, alive>>

Release(p) == Unlock(p) /\ UNCHANGED hist

\* what a completed call leaves in hist
Event(r) == [op |-> r.op, name |-> r.name, err |-> r.err, exec |-> r.exec]

\* Release, with the call recorded
ReleaseRecorded(p) == Unlock(p) /\ hist' = Append(hist, Event(req[p]))

----------------------------------------------------------------------------
(* Create *)

\* d.volumes[r.Name] = v
insertIfAbsent(vols, n, v) == IF n \in DOMAIN vols THEN vols ELSE (n :> v) @@ vols

insert(vols, n, v) == (n :> v) @@ vols

CreateBody(p, W) ==
    /\ alive /\ pc[p] = "body" /\ req[p].op = "create"
    /\ LET e == createError(req[p].opts) IN
       IF e # ""
          THEN /\ Ret(p, e)
               /\ UNCHANGED <<volumes, stateFile, saved>>
          ELSE \E w \in W :
               /\ volumes' = insert(volumes, req[p].name, newVolume(req[p].opts))
               /\ stateFile' = saveState(volumes', stateFile, w)
               /\ saved' = (w = "ok")
               /\ RetSaved(p)
    /\ UNCHANGED <<fs, mounts, mutex, alive, hist>>

----------------------------------------------------------------------------
(* Remove *)

\* v.connections != 0
isBusyNever(v) == FALSE

isBusy(v) == v.connections # 0

\* d.volumes after os.RemoveAll(v.Mountpoint) returned err (ok: err == nil):
\* delete(d.volumes, r.Name) is reached only past the error return
afterRemoveAllDeleted(vols, n, ok) == [m \in DOMAIN vols \ {n} |-> vols[m]]

afterRemoveAll(vols, n, ok) ==
    IF ok THEN [m \in DOMAIN vols \ {n} |-> vols[m]] ELSE vols

RemoveBody(p, W) ==
    /\ alive /\ pc[p] = "body" /\ req[p].op = "remove"
    /\ LET n == req[p].name IN
       IF ~Present(n)
          THEN /\ Ret(p, "not found")
               /\ UNCHANGED <<volumes, stateFile, saved, fs>>
       ELSE IF isBusy(volumes[n])
          THEN /\ Ret(p, "busy")
               /\ UNCHANGED <<volumes, stateFile, saved, fs>>
       ELSE \/ \* os.RemoveAll fails
               /\ Ret(p, "io")
               /\ volumes' = afterRemoveAll(volumes, n, FALSE)
               /\ UNCHANGED <<stateFile, saved, fs>>
            \/ \E w \in W :
               /\ fs' = [fs EXCEPT ![volumes[n].Mountpoint] = "absent"]
               /\ volumes' = afterRemoveAll(volumes, n, TRUE)
               /\ stateFile' = saveState(volumes', stateFile, w)
               /\ saved' = (w = "ok")
               /\ RetSaved(p)
    /\ UNCHANGED <<mounts, mutex, alive, hist>>

----------------------------------------------------------------------------
(* Path *)

PathBody(p) ==
    /\ alive /\ pc[p] = "body" /\ req[p].op = "path"
    /\ IF ~Present(req[p].name)
          THEN Ret(p, "not found")
          ELSE /\ pc' = [pc EXCEPT ![p] = "unlock"]
               /\ req' = [req EXCEPT ![p].mp = volumes[req[p].name].Mountpoint,
                                     ![p].ref0 = Conn(req[p].name)]
    /\ UNCHANGED <<volumes, stateFile, saved, fs, mounts, mutex, alive, hist>>

----------------------------------------------------------------------------
(* Get and List *)

GetBody(p) ==
    /\ alive /\ pc[p] = "body" /\ req[p].op = "get"
    /\ IF ~Present(req[p].name)
          THEN Ret(p, "not found")
          ELSE /\ pc' = [pc EXCEPT ![p] = "unlock"]
               /\ req' = [req EXCEPT ![p].mp = volumes[req[p].name].Mountpoint,
                                     ![p].ref0 = Conn(req[p].name)]
    /\ UNCHANGED <<volumes, stateFile, saved, fs, mounts, mutex, alive, hist>>

\* List reads every record and cannot fail
ListBody(p) ==
    /\ alive /\ pc[p] = "body" /\ req[p].op = "list"
    /\ Ret(p, "")
    /\ UNCHANGED <<volumes, stateFile, saved, fs, mounts, mutex, alive, hist>>

----------------------------------------------------------------------------
(* Mount *)

\* v.connections == 0: the volume has to be mounted
needsMountAlways(v) == TRUE

needsMount(v) == v.connections = 0

\* the record's connections after d.mountVolume returned err (ok: err == nil):
\* v.connections++ is reached only past the error return
afterMountCounted(c, ok) == c + 1

afterMount(c, ok) == IF ok THEN c + 1 ELSE c

\* fi != nil && !fi.IsDir(), for what os.Lstat found at the mountpoint
notDirectoryNever(st) == FALSE

notDirectory(st) == st = "file"

\* the path after os.MkdirAll, which runs only when os.Lstat found nothing
afterMkdirAll(st) == IF st = "absent" THEN "dir" ELSE st

MountBody(p) ==
    /\ alive /\ pc[p] = "body" /\ req[p].op = "mount"
    /\ LET n == req[p].name IN
       IF ~Present(n)
          THEN /\ Ret(p, "not found")
               /\ UNCHANGED <<volumes, fs>>
       ELSE IF needsMount(volumes[n])
          THEN LET mp == volumes[n].Mountpoint IN
               \/ \* os.Lstat fails other than with IsNotExist, or os.MkdirAll fails
                  /\ Ret(p, "io")
                  /\ UNCHANGED <<volumes, fs>>
               \/ \* fi is not a directory
                  /\ notDirectory(fs[mp])
                  /\ Ret(p, "not a directory")
                  /\ UNCHANGED <<volumes, fs>>
               \/ \* the directory exists, or os.MkdirAll makes it: d.mountVolume(v)
                  /\ ~notDirectory(fs[mp])
                  /\ fs' = [fs EXCEPT ![mp] = afterMkdirAll(@)]
                  /\ pc' = [pc EXCEPT ![p] = "mountVolume"]
                  /\ req' = [req EXCEPT ![p].mp = mp, ![p].ref0 = Conn(n)]
                  /\ UNCHANGED volumes
          ELSE /\ Ret(p, "")
               /\ volumes' = SetConn(n, Conn(n) + 1)
               /\ UNCHANGED fs
    /\ UNCHANGED <<stateFile, saved, mounts, mutex, alive, hist>>

\* d.mountVolume(v) returns: log.Fatal when v.URL does not parse, else cmd.Run()'s error
MountVolumeDone(p) ==
    /\ alive /\ pc[p] = "mountVolume"
    /\ LET n == req[p].name
           mp == req[p].mp IN
       IF Present(n) /\ ~urlParses(volumes[n].URL)
          THEN /\ alive' = FALSE
               /\ UNCHANGED <<volumes, mounts, pc, req>>
          ELSE /\ \E ok \in BOOLEAN :
                     /\ ok => mounts[mp] < MaxMounts
                     /\ mounts' = IF ok THEN [mounts EXCEPT ![mp] = @ + 1] ELSE mounts
                     /\ volumes' = IF Present(n) THEN SetConn(n, afterMount(Conn(n), ok))
                                   ELSE volumes
                     /\ req' = [req EXCEPT ![p].exec = IF ok THEN "ok" ELSE "failed",
                                           ![p].err = IF ok THEN "" ELSE "mount failed"]
               /\ pc' = [pc EXCEPT ![p] = "unlock"]
               /\ UNCHANGED alive
    /\ UNCHANGED <<stateFile, saved, fs, mutex, hist>>

----------------------------------------------------------------------------
(* Unmount *)

\* v.connections <= 0, after the decrement
needsUnmountAtZero(c) == c = 0

needsUnmount(c) == c <= 0

UnmountBody(p) ==
    /\ alive /\ pc[p] = "body" /\ req[p].op = "unmount"
    /\ LET n == req[p].name IN
       IF ~Present(n)
          THEN /\ Ret(p, "not found")
               /\ UNCHANGED volumes
          ELSE /\ volumes' = SetConn(n, Conn(n) - 1)
               /\ req' = [req EXCEPT ![p].mp = volumes[n].Mountpoint, ![p].ref0 = Conn(n)]
               /\ pc' = [pc EXCEPT ![p] =
                            IF needsUnmount(Conn(n) - 1) THEN "unmountVolume" ELSE "unlock"]
    /\ UNCHANGED <<stateFile, saved, fs, mounts, mutex, alive, hist>>

\* the record's connections after d.unmountVolume returned err (ok: err == nil):
\* v.connections = 0 is reached only past the error return
afterUnmount(c, ok) == IF ok THEN 0 ELSE c

\* d.unmountVolume(v.Mountpoint) returns
UnmountVolumeDone(p) ==
    /\ alive /\ pc[p] = "unmountVolume"
    /\ LET n == req[p].name
           mp == req[p].mp IN
       \E ok \in BOOLEAN :
          /\ mounts' = IF ok /\ mounts[mp] > 0 THEN [mounts EXCEPT ![mp] = @ - 1] ELSE mounts
          /\ volumes' = IF Present(n) THEN SetConn(n, afterUnmount(Conn(n), ok)) ELSE volumes
          /\ req' = [req EXCEPT ![p].exec = IF ok THEN "ok" ELSE "failed",
                                ![p].err = IF ok THEN "" ELSE "unmount failed"]
    /\ pc' = [pc EXCEPT ![p] = "unlock"]
    /\ UNCHANGED <<stateFile, saved, fs, mutex, alive, hist>>

----------------------------------------------------------------------------
(* Process start: main and newwebdavfsDriver *)

\* d.volumes after newwebdavfsDriver read the state file
loaded(file) == IF file.exists /\ file.valid THEN Unmarshal(file.data) ELSE NoData

\* newwebdavfsDriver returns no error
loads(file) == ~file.exists \/ file.valid

\* The process is killed and started again. A mount or umount command that is
\* running ends first: its outcome touches only the kernel's mounts, and the
\* restart discards everything else the handler would write.
Boot ==
    /\ \A p \in Procs : pc[p] \notin {"mountVolume", "unmountVolume"}
    /\ volumes' = loaded(stateFile)
    /\ alive' = loads(stateFile)
    /\ mutex' = Unlocked
    /\ pc' = [p \in Procs |-> "idle"]
    /\ req' = [p \in Procs |-> NoReq]
    /\ UNCHANGED <<stateFile, saved, fs, mounts>>

Restart == Boot /\ UNCHANGED hist

\* what a restart leaves in hist: the names whose connections it discarded
BootEvent ==
    [op |-> "restart", name |-> "", err |-> "", exec |-> "none",
     dropped |-> {n \in DOMAIN volumes : volumes[n].connections > 0}]

\* Restart, with the last one recorded
RestartRecorded == Boot /\ hist' = <<BootEvent>>

----------------------------------------------------------------------------
(* Specifications *)

InitWith(P, Paths) ==
    /\ volumes = NoData
    /\ stateFile = NoFile
    /\ saved = FALSE
    /\ fs \in [Mountpoints -> Paths]
    /\ mounts = [m \in Mountpoints |-> 0]
    /\ mutex = Unlocked
    /\ pc = [p \in P |-> "idle"]
    /\ req = [p \in P |-> NoReq]
    /\ alive = TRUE
    /\ hist = <<>>

MutatingOps == {"create", "remove", "mount", "unmount"}

\* One request at a time on two volume names; the state file is always written.
Init == InitWith({1}, {"absent", "dir", "file"})

Next ==
    \/ \E p \in Procs : Call(p, MutatingOps, AllNames, {O2, O3, ONoUrl})
    \/ \E p \in Procs : Acquire(p)
    \/ \E p \in Procs : CreateBody(p, WriteOutcomes)
    \/ \E p \in Procs : RemoveBody(p, WriteOutcomes)
    \/ \E p \in Procs : MountBody(p)
    \/ \E p \in Procs : MountVolumeDone(p)
    \/ \E p \in Procs : UnmountBody(p)
    \/ \E p \in Procs : UnmountVolumeDone(p)
    \/ \E p \in Procs : Release(p)
    \/ Restart

Spec == Init /\ [][Next]_vars

\* One request at a time on one volume, every completed call recorded in hist.
InitSeq == InitWith({1}, {"absent", "dir", "file"})

CallBounded(p, Ops, Names, Options) == Len(hist) < MaxHist /\ Call(p, Ops, Names, Options)

NextSeq ==
    \/ \E p \in Procs : CallBounded(p, MutatingOps, OneName, {O1})
    \/ \E p \in Procs : Acquire(p)
    \/ \E p \in Procs : CreateBody(p, {"ok"})
    \/ \E p \in Procs : RemoveBody(p, {"ok"})
    \/ \E p \in Procs : MountBody(p)
    \/ \E p \in Procs : MountVolumeDone(p)
    \/ \E p \in Procs : UnmountBody(p)
    \/ \E p \in Procs : UnmountVolumeDone(p)
    \/ \E p \in Procs : ReleaseRecorded(p)

SpecSeq == InitSeq /\ [][NextSeq]_vars

\* Two concurrent requests on one volume.
InitConc == InitWith({1, 2}, {"absent"})

NextConc ==
    \/ \E p \in Procs : Call(p, MutatingOps \cup {"path"}, AllNames, {O1})
    \/ \E p \in Procs : Acquire(p)
    \/ \E p \in Procs : CreateBody(p, {"ok"})
    \/ \E p \in Procs : RemoveBody(p, {"ok"})
    \/ \E p \in Procs : PathBody(p)
    \/ \E p \in Procs : MountBody(p)
    \/ \E p \in Procs : MountVolumeDone(p)
    \/ \E p \in Procs : UnmountBody(p)
    \/ \E p \in Procs : UnmountVolumeDone(p)
    \/ \E p \in Procs : Release(p)

SpecConc == InitConc /\ [][NextConc]_vars

\* One request at a time on two volumes, the last restart recorded in hist.
InitStore == InitWith({1}, {"absent"})

NextStore ==
    \/ \E p \in Procs : Call(p, MutatingOps, AllNames, {OFull})
    \/ \E p \in Procs : Acquire(p)
    \/ \E p \in Procs : CreateBody(p, WriteOutcomes)
    \/ \E p \in Procs : RemoveBody(p, WriteOutcomes)
    \/ \E p \in Procs : MountBody(p)
    \/ \E p \in Procs : MountVolumeDone(p)
    \/ \E p \in Procs : UnmountBody(p)
    \/ \E p \in Procs : UnmountVolumeDone(p)
    \/ \E p \in Procs : Release(p)
    \/ RestartRecorded

SpecStore == InitStore /\ [][NextStore]_vars

\* One request at a time, create, remove and mount, every kind of options
\* mapping.
InitCreate == InitWith({1}, {"absent"})

NextCreate ==
    \/ \E p \in Procs : Call(p, {"create", "remove", "mount"}, AllNames, AllOptions)
    \/ \E p \in Procs : Acquire(p)
    \/ \E p \in Procs : CreateBody(p, WriteOutcomes)
    \/ \E p \in Procs : RemoveBody(p, WriteOutcomes)
    \/ \E p \in Procs : MountBody(p)
    \/ \E p \in Procs : MountVolumeDone(p)
    \/ \E p \in Procs : Release(p)

SpecCreate == InitCreate /\ [][NextCreate]_vars

\* One request at a time on two volumes, created from the same url with
\* different options or from different urls.
InitUrl == InitWith({1}, {"absent"})

NextUrl ==
    \/ \E p \in Procs : Call(p, MutatingOps, AllNames, {O1, O2, O3})
    \/ \E p \in Procs : Acquire(p)
    \/ \E p \in Procs : CreateBody(p, {"ok"})
    \/ \E p \in Procs : RemoveBody(p, {"ok"})
    \/ \E p \in Procs : MountBody(p)
    \/ \E p \in Procs : MountVolumeDone(p)
    \/ \E p \in Procs : UnmountBody(p)
    \/ \E p \in Procs : UnmountVolumeDone(p)
    \/ \E p \in Procs : Release(p)

SpecUrl == InitUrl /\ [][NextUrl]_vars

\* One request at a time on one volume, the process started on a state file
\* that holds a JSON document written by anyone: the record's fields need not be
\* what Create would have written.
AllOps == MutatingOps \cup {"path", "get", "list"}

LoadableRecords ==
    {[zeroVolume EXCEPT !.URL = u, !.Mountpoint = m] :
        u \in {U1, UBad, ""}, m \in Mountpoints}

LoadableFiles ==
    {NoFile} \cup
    {[exists |-> TRUE, valid |-> TRUE, data |-> Marshal("v" :> r)] : r \in LoadableRecords}

InitLoaded ==
    /\ stateFile \in LoadableFiles
    /\ volumes = loaded(stateFile)
    /\ saved = FALSE
    /\ fs \in [Mountpoints -> {"absent", "file"}]
    /\ mounts = [m \in Mountpoints |-> 0]
    /\ mutex = Unlocked
    /\ pc = [p \in {1} |-> "idle"]
    /\ req = [p \in {1} |-> NoReq]
    /\ alive = loads(stateFile)
    /\ hist = <<>>

NextLoaded ==
    \/ \E p \in Procs : Call(p, AllOps, OneName, {O1, OBad})
    \/ \E p \in Procs : Acquire(p)
    \/ \E p \in Procs : CreateBody(p, {"ok"})
    \/ \E p \in Procs : RemoveBody(p, {"ok"})
    \/ \E p \in Procs : PathBody(p)
    \/ \E p \in Procs : GetBody(p)
    \/ \E p \in Procs : ListBody(p)
    \/ \E p \in Procs : MountBody(p)
    \/ \E p \in Procs : MountVolumeDone(p)
    \/ \E p \in Procs : UnmountBody(p)
    \/ \E p \in Procs : UnmountVolumeDone(p)
    \/ \E p \in Procs : Release(p)

SpecLoaded == InitLoaded /\ [][NextLoaded]_vars

\* Two concurrent requests on one volume, the reading handlers among them.
InitRead == InitWith({1, 2}, {"absent"})

NextRead ==
    \/ \E p \in Procs : Call(p, {"create", "remove", "path", "get", "list"}, OneName, {O1})
    \/ \E p \in Procs : Acquire(p)
    \/ \E p \in Procs : CreateBody(p, {"ok"})
    \/ \E p \in Procs : RemoveBody(p, {"ok"})
    \/ \E p \in Procs : PathBody(p)
    \/ \E p \in Procs : GetBody(p)
    \/ \E p \in Procs : ListBody(p)
    \/ \E p \in Procs : Release(p)

SpecRead == InitRead /\ [][NextRead]_vars

\* Two concurrent requests on one volume, every handler among them, under the
\* scheduling the Go runtime gives: a goroutine that can run does run, the
\* commands and filesystem calls end, and a goroutine blocked in d.Lock() or
\* d.RLock() is not passed over forever (sync.Mutex hands the lock to a waiter
\* that starves; a blocked Lock holds back new RLocks).
LiveProcs == {1, 2}

InitLive == InitWith(LiveProcs, {"absent", "file"})

\* a step of p's handler past d.Lock() / d.RLock()
HandlerStep(p) ==
    \/ CreateBody(p, {"ok"})
    \/ RemoveBody(p, {"ok"})
    \/ PathBody(p)
    \/ GetBody(p)
    \/ ListBody(p)
    \/ MountBody(p)
    \/ MountVolumeDone(p)
    \/ UnmountBody(p)
    \/ UnmountVolumeDone(p)
    \/ Release(p)

NextLive ==
    \/ \E p \in Procs : Call(p, AllOps, OneName, {O1, ONoUrl})
    \/ \E p \in Procs : Acquire(p)
    \/ \E p \in Procs : CreateBody(p, {"ok"})
    \/ \E p \in Procs : RemoveBody(p, {"ok"})
    \/ \E p \in Procs : PathBody(p)
    \/ \E p \in Procs : GetBody(p)
    \/ \E p \in Procs : ListBody(p)
    \/ \E p \in Procs : MountBody(p)
    \/ \E p \in Procs : MountVolumeDone(p)
    \/ \E p \in Procs : UnmountBody(p)
    \/ \E p \in Procs : UnmountVolumeDone(p)
    \/ \E p \in Procs : Release(p)

FairLive == \A p \in LiveProcs : WF_vars(HandlerStep(p)) /\ SF_vars(Acquire(p))

SpecLive == InitLive /\ [][NextLive]_vars /\ FairLive

----------------------------------------------------------------------------
(* Vocabulary of the claims *)

\* no handler is between d.Lock() and its return
Quiet == \A p \in Procs : pc[p] \in {"idle", "lock"}

\* p's handler for op has set its return value and is about to unlock
Returning(p, op) == pc[p] = "unlock" /\ req[p].op = op

\* the last k completed calls
LastCalls(k) == SubSeq(hist, Len(hist) - k + 1, Len(hist))

\* the last calls were a successful create and then ops, all on one name
FreshThen(ops) ==
    /\ Len(hist) >= Len(ops) + 1
    /\ LET h == LastCalls(Len(ops) + 1) IN
          /\ h[1].op = "create" /\ h[1].err = ""
          /\ \A i \in 1..Len(ops) : h[i + 1].op = ops[i] /\ h[i + 1].name = h[1].name

\* how many of the last k calls ran the executor of op
Execs(k, op) ==
    Cardinality({i \in 1..k : LastCalls(k)[i].op = op /\ LastCalls(k)[i].exec # "none"})

\* the name the last call was about
LastName == hist[Len(hist)].name

----------------------------------------------------------------------------
(* C1 *)

\* C1: between calls every record's refCount (connections) is >= 0, whatever
\* create, remove, mount and unmount calls came before and however the mount
\* and umount commands ended.
C1_RefCountNeverNegative ==
    Quiet => \A n \in DOMAIN volumes : volumes[n].connections >= 0

----------------------------------------------------------------------------
(* C2 *)

\* C2: an unmount whose umount command failed returns an error and leaves the
\* record's refCount at exactly 0.
C2_FailedUnmountLeavesZero ==
    \A p \in Procs :
        (Returning(p, "unmount") /\ req[p].exec = "failed")
            => (req[p].err # "" /\ Conn(req[p].name) = 0)

----------------------------------------------------------------------------
(* C3 *)

\* C3 as stated: after create, mount, unmount, unmount of one volume refCount is
\* 0 and the umount command ran exactly once; an unmount of a volume whose
\* refCount is already 0 does not run the umount command.
C3_UnmountExecutorOnce ==
    /\ \A p \in Procs : pc[p] = "unmountVolume" => req[p].ref0 # 0
    /\ (Quiet /\ FreshThen(<<"mount", "unmount", "unmount">>))
          => (Conn(LastName) = 0 /\ Execs(3, "unmount") = 1)

\* C3 as amended: an unmount of a present volume runs the umount command exactly
\* when refCount at call time is <= 1, also when it is already 0 or below; after
\* create, mount, unmount, unmount of one volume the command has run twice, and
\* refCount is 0 if its second run succeeded and negative if it failed (-1 when
\* the mount had succeeded).
C3_UnmountExecutorAtOrBelowOne ==
    /\ \A p \in Procs : pc[p] = "unmountVolume" => req[p].ref0 <= 1
    /\ \A p \in Procs :
          (Returning(p, "unmount") /\ req[p].err # "not found")
              => (req[p].exec # "none" <=> req[p].ref0 <= 1)
    /\ (Quiet /\ FreshThen(<<"mount", "unmount", "unmount">>))
          => /\ Execs(3, "unmount") = 2
             /\ hist[Len(hist)].exec = "ok" => Conn(LastName) = 0
             /\ hist[Len(hist)].exec = "failed" => Conn(LastName) < 0
             /\ (hist[Len(hist)].exec = "failed" /\ hist[Len(hist) - 2].err = "")
                   => Conn(LastName) = -1

C3_Witness ==
    /\ Quiet /\ FreshThen(<<"mount", "unmount", "unmount">>)
    /\ hist[Len(hist) - 2].exec = "ok"
    /\ Execs(3, "unmount") = 2
    /\ Conn(LastName) = 0

----------------------------------------------------------------------------
(* C4 *)

\* C4: Mount runs the mount command only if refCount is 0 at call time; with
\* refCount > 0 it skips the command, succeeds and increments refCount. After
\* create, mount, mount, unmount of one volume, all successful, refCount is 1,
\* the mount command has run exactly once and the umount command not at all.
C4_MountExecutorOnlyAtZero ==
    /\ \A p \in Procs : pc[p] = "mountVolume" => req[p].ref0 = 0
    /\ \A p \in Procs :
          Returning(p, "mount") =>
              /\ req[p].exec # "none" => req[p].ref0 = 0
              /\ req[p].ref0 > 0 =>
                    /\ req[p].exec = "none" /\ req[p].err = ""
                    /\ Conn(req[p].name) = req[p].ref0 + 1
    /\ (/\ Quiet /\ FreshThen(<<"mount", "mount", "unmount">>)
        /\ \A i \in 1..3 : LastCalls(3)[i].err = "")
          => /\ Conn(LastName) = 1
             /\ Execs(3, "mount") = 1
             /\ Execs(3, "unmount") = 0

C4_Witness ==
    /\ Quiet /\ FreshThen(<<"mount", "mount", "unmount">>)
    /\ \A i \in 1..3 : LastCalls(3)[i].err = ""
    /\ Execs(3, "mount") = 1

----------------------------------------------------------------------------
(* C5 *)

\* C5: a mount whose mount command failed returns an error and leaves refCount
\* at 0, and the mount call that follows it runs the mount command again (unless
\* the mountpoint directory cannot be prepared).
C5_FailedMountLeavesZero ==
    /\ \A p \in Procs :
          (Returning(p, "mount") /\ req[p].exec = "failed")
              => (req[p].err # "" /\ req[p].ref0 = 0 /\ Conn(req[p].name) = 0)
    /\ \A i \in 1..(Len(hist) - 1) :
          (/\ hist[i].op = "mount" /\ hist[i].exec = "failed"
           /\ hist[i + 1].op = "mount" /\ hist[i + 1].name = hist[i].name)
              => (hist[i + 1].exec # "none" \/ hist[i + 1].err \in {"io", "not a directory"})

C5_Witness ==
    /\ Len(hist) >= 2
    /\ hist[Len(hist) - 1].op = "mount" /\ hist[Len(hist) - 1].exec = "failed"
    /\ hist[Len(hist) - 1].err = "mount failed"
    /\ hist[Len(hist)].op = "mount" /\ hist[Len(hist)].exec = "ok"
    /\ Quiet /\ Conn(LastName) = 1

----------------------------------------------------------------------------
(* C6 *)

\* C6: a remove of a present volume fails with the busy error if and only if
\* the volume's refCount is > 0 when Remove looks at it.
C6_BusyIffPositive ==
    \A p \in Procs :
        (Returning(p, "remove") /\ req[p].err # "not found")
            => (req[p].err = "busy" <=> req[p].ref0 > 0)

----------------------------------------------------------------------------
(* C7 *)

\* C7 as stated: a create of a name that is already in the registry fails and
\* leaves the existing record unchanged.
C7_DuplicateCreateFails ==
    \A p \in Procs :
        (Returning(p, "create") /\ req[p].mp # "")
            => /\ req[p].err # ""
               /\ Conn(req[p].name) = req[p].ref0
               /\ volumes[req[p].name].Mountpoint = req[p].mp

\* p's Create handler runs, for a name the registry holds
CreatesOver(p) ==
    /\ pc[p] = "body" /\ req[p].op = "create" /\ pc'[p] = "unlock"
    /\ Present(req[p].name)

\* options with a url that parses and no key but url, uid and ro
PlainOptions(o) ==
    /\ "url" \in DOMAIN o /\ DOMAIN o \subseteq {"url", "uid", "ro"}
    /\ o["url"] \in {U1, U2}

\* C7 as amended: a create of a name that is already in the registry succeeds
\* whenever Create accepts the options, and then replaces the existing record by
\* a fresh one built from the new options, with refCount 0, whatever the old
\* record's refCount was; when Create rejects the options the registry is
\* unchanged.
C7_DuplicateCreateReplaces ==
    [][\A p \in Procs :
          CreatesOver(p) =>
              LET n == req[p].name
                  o == req[p].opts IN
              /\ PlainOptions(o) => req'[p].err = ""
              /\ req'[p].err # "" => volumes' = volumes
              /\ req'[p].err = "" =>
                    /\ DOMAIN volumes' = DOMAIN volumes
                    /\ volumes'[n].URL = o["url"]
                    /\ volumes'[n].UID = Val(o, "uid")
                    /\ volumes'[n].Mountpoint = Mountpoint(o["url"])
                    /\ volumes'[n].connections = 0
                    /\ \A m \in DOMAIN volumes \ {n} : volumes'[m] = volumes[m]]_vars

C7_Witness ==
    \E p \in Procs :
        /\ Returning(p, "create") /\ req[p].err = ""
        /\ req[p].mp # "" /\ volumes[req[p].name].Mountpoint # req[p].mp

----------------------------------------------------------------------------
(* C8 *)

ConnIn(vols, n) == IF n \in DOMAIN vols THEN vols[n].connections ELSE 0

\* a step of a handler for op on name n
StepOf(op, n) ==
    \E p \in Procs :
        /\ req[p].op = op /\ req[p].name = n
        /\ pc[p] \in {"body", "mountVolume", "unmountVolume"} /\ pc'[p] # pc[p]

\* C8 as stated: a name enters the registry only by a create, leaves it only by
\* a remove run while its refCount is 0, and a positive refCount reaches 0 (or
\* is discarded) only by an unmount.
C8_LifecycleSteps ==
    [][~Boot =>
          \A n \in AllNames :
              /\ (~Present(n) /\ n \in DOMAIN volumes') => StepOf("create", n)
              /\ (Present(n) /\ n \notin DOMAIN volumes')
                    => (StepOf("remove", n) /\ Conn(n) = 0)
              /\ (Conn(n) > 0 /\ ConnIn(volumes', n) <= 0) => StepOf("unmount", n)]_vars

\* C8 as amended: between process restarts, a name enters the registry only by a
\* create, leaves it only by a remove run while its refCount is 0, and a
\* positive refCount reaches 0 only by an unmount or by a create of the same
\* name, which replaces the record by a fresh one with refCount 0; no remove
\* discards a positive refCount.
C8_LifecycleStepsOrRecreate ==
    [][~Boot =>
          \A n \in AllNames :
              /\ (~Present(n) /\ n \in DOMAIN volumes') => StepOf("create", n)
              /\ (Present(n) /\ n \notin DOMAIN volumes')
                    => (StepOf("remove", n) /\ Conn(n) = 0)
              /\ (Conn(n) > 0 /\ ConnIn(volumes', n) <= 0)
                    => \/ StepOf("unmount", n)
                       \/ /\ StepOf("create", n)
                          /\ n \in DOMAIN volumes' /\ ConnIn(volumes', n) = 0]_vars

C8_Witness ==
    \E p \in Procs :
        /\ Returning(p, "create") /\ req[p].err = ""
        /\ req[p].ref0 > 0 /\ Conn(req[p].name) = 0

----------------------------------------------------------------------------
(* C9 *)

\* p is between d.Lock() / d.RLock() and the deferred unlock
InCritical(p) == pc[p] \in {"body", "mountVolume", "unmountVolume", "unlock"}

\* C9: at no time are two mount or umount commands running, and at no time are
\* two of create, remove, mount, unmount inside their critical section.
C9_MutualExclusion ==
    /\ Cardinality({p \in Procs : pc[p] \in {"mountVolume", "unmountVolume"}}) <= 1
    /\ Cardinality({p \in Procs : InCritical(p) /\ req[p].op \in MutatingOps}) <= 1

C9_Witness ==
    \E p, q \in Procs :
        /\ pc[p] = "mountVolume"
        /\ pc[q] = "lock" /\ req[q].op \in {"mount", "unmount"}
        /\ req[q].name = req[p].name

----------------------------------------------------------------------------
(* C10 *)

\* C10: a restart after a save that succeeded yields a registry with the same
\* names and, for each, the same values of every persisted field, and every
\* refCount 0.
C10_RestartRoundTrip ==
    [][(Boot /\ saved) =>
          /\ alive'
          /\ DOMAIN volumes' = DOMAIN volumes
          /\ \A n \in DOMAIN volumes :
                /\ \A f \in PersistedFields : volumes'[n][f] = volumes[n][f]
                /\ volumes'[n].connections = 0]_vars

C10_Witness ==
    /\ Len(hist) = 1 /\ hist[1].dropped = AllNames
    /\ saved /\ Quiet
    /\ DOMAIN volumes = AllNames
    /\ \A n \in AllNames :
          /\ volumes[n].connections = 0
          /\ volumes[n].Username = "bob" /\ volumes[n].Netdev /\ volumes[n].Mountpoint # ""

----------------------------------------------------------------------------
(* C11 *)

\* p's handler has changed d.volumes: Create and Remove when they succeed,
\* Mount and Unmount when they leave the record's connections changed
Mutated(p) ==
    /\ pc[p] = "unlock" /\ req[p].op \in MutatingOps
    /\ IF req[p].op \in {"create", "remove"}
          THEN req[p].err = ""
          ELSE Conn(req[p].name) # req[p].ref0

\* C11 as stated: every create, remove, mount and unmount that changed the
\* registry has called saveState once it is about to release the lock.
C11_EveryMutationSaves ==
    \A p \in Procs : Mutated(p) => req[p].saves = 1

\* C11 as amended: a create or remove that succeeds calls saveState exactly
\* once, after the change and before the lock is released, so that when the
\* write succeeded the state file holds the whole changed map while the lock is
\* still held; mount and unmount, which change only refCount, and every call
\* that fails, never call saveState.
C11_CreateAndRemoveSave ==
    \A p \in Procs :
        pc[p] = "unlock" =>
            /\ req[p].saves = 1 <=> (req[p].op \in {"create", "remove"} /\ req[p].err = "")
            /\ req[p].saves \in {0, 1}
            /\ (req[p].saves = 1 /\ saved)
                  => /\ stateFile = [exists |-> TRUE, valid |-> TRUE, data |-> Marshal(volumes)]
                     /\ mutex.w = p

C11_Witness ==
    \E p \in Procs :
        /\ Returning(p, "remove") /\ req[p].err = "" /\ req[p].saves = 1 /\ saved
        /\ \E m \in DOMAIN volumes : volumes[m].connections > 0
        /\ stateFile.data = Marshal(volumes)

----------------------------------------------------------------------------
(* C12 *)

\* p's Create or Remove handler runs to its return through a saveState whose
\* ioutil.WriteFile fails
SaveFails(p) ==
    /\ pc[p] = "body" /\ req[p].op \in {"create", "remove"}
    /\ pc'[p] = "unlock" /\ req'[p].saves = 1 /\ ~saved'

\* C12: a create or remove whose state-file write fails still returns success
\* and keeps its change to the registry, and the state file keeps the content
\* it had before the call.
C12_FailedWriteKeepsFile ==
    [][\A p \in Procs :
          SaveFails(p) =>
              /\ req'[p].err = ""
              /\ req[p].op = "create" =>
                    /\ req[p].name \in DOMAIN volumes'
                    /\ volumes'[req[p].name] = newVolume(req[p].opts)
              /\ req[p].op = "remove" => req[p].name \notin DOMAIN volumes'
              /\ stateFile' = stateFile]_vars

----------------------------------------------------------------------------
(* C13 *)

\* the option keys the claim lists
ListedKeys ==
    {"url", "username", "password", "conf", "uid", "gid", "file_mode", "dir_mode",
     "ro", "rw", "exec", "suid", "grpid", "_netdev"}

\* the record the claim expects for options o: every listed key sets its field
ListedRecord(o) ==
    [parseOptions(o) EXCEPT !.Netdev = "_netdev" \in DOMAIN o,
                            !.Mountpoint = Mountpoint(Val(o, "url"))]

\* C13: a create with a valid url succeeds when every key of its options is one
\* of url, username, password, conf, uid, gid, file_mode, dir_mode, ro, rw,
\* exec, suid, grpid, _netdev, and the record holds the fields the keys set
\* (_netdev sets Netdev); it fails with the unknown-option error when the
\* options hold any other key.
C13_ListedKeysAccepted ==
    \A p \in Procs :
        (Returning(p, "create") /\ Val(req[p].opts, "url") \in {U1, U2}) =>
            IF DOMAIN req[p].opts \subseteq ListedKeys
               THEN /\ req[p].err = ""
                    /\ Present(req[p].name)
                    /\ volumes[req[p].name] = ListedRecord(req[p].opts)
               ELSE req[p].err = "unknown option"

----------------------------------------------------------------------------
(* C14 *)

\* p's Create returns, for options with no url or an empty one
ReturningNoUrl(p) == Returning(p, "create") /\ Val(req[p].opts, "url") = ""

\* C14 as stated: a create whose options hold no url, or an empty one, fails
\* with the url-required error, whatever other keys the options hold.
C14_NoUrlAlwaysMissingOption ==
    \A p \in Procs : ReturningNoUrl(p) => req[p].err = "url required"

\* C14 as amended: a create whose options hold no url, or an empty one, always
\* fails: with the url-required error when every key is one Create recognizes
\* (url, username, password, conf, uid, gid, file_mode, dir_mode, ro, rw, exec,
\* suid, grpid, _netdav), and with the unknown-option error when the options
\* hold any other key (_netdev included).
C14_NoUrlFailsUnknownKeyFirst ==
    \A p \in Procs :
        ReturningNoUrl(p) =>
            /\ req[p].err =
                  IF DOMAIN req[p].opts \subseteq KnownKeys
                     THEN "url required" ELSE "unknown option"
            /\ req[p].saves = 0

C14_Witness ==
    \E p \in Procs :
        /\ ReturningNoUrl(p) /\ req[p].err = "unknown option"
        /\ "url" \notin DOMAIN req[p].opts
        /\ Present(req[p].name)

----------------------------------------------------------------------------
(* C15 *)

----------------------------------------------------------------------------
(* C16 *)

\* C16: no step of create, remove, path, get, list, mount or unmount ends the
\* process, whatever the registry holds, a registry loaded from a valid JSON
\* state file with arbitrary field values included.
C16_NoOperationEndsProcess ==
    [][(alive /\ ~Boot) => alive']_vars

----------------------------------------------------------------------------
(* C17 *)

\* C17 as stated: path, get and list take the exclusive lock, so no two
\* handlers of any kind, two reading ones included, are inside their critical
\* section at the same time.
C17_AllOperationsSerialize ==
    Cardinality({p \in Procs : InCritical(p)}) <= 1

\* C17 as amended: get and list take the exclusive lock and path the shared
\* one: two handlers are inside their critical section at the same time only
\* if both are path, and a handler other than path is alone in its critical
\* section, holding the lock exclusively.
C17_OnlyPathsOverlap ==
    /\ \A p, q \in Procs :
          (p # q /\ InCritical(p) /\ InCritical(q))
              => (req[p].op = "path" /\ req[q].op = "path")
    /\ \A p \in Procs :
          InCritical(p) =>
              IF req[p].op = "path" THEN p \in mutex.r /\ mutex.w = 0
              ELSE mutex.w = p /\ mutex.r = {}

C17_Witness ==
    /\ \A p \in Procs : pc[p] = "unlock" /\ req[p].op = "path" /\ req[p].err = ""
    /\ Cardinality(Procs) = 2
    /\ mutex.r = Procs

----------------------------------------------------------------------------
(* C18 *)

\* p's Create or Remove handler runs to a return with an error
FailsIn(p) ==
    /\ pc[p] = "body" /\ req[p].op \in {"create", "remove"}
    /\ pc'[p] = "unlock" /\ req'[p].err # ""

\* C18: a create that returns an error (unknown key, missing url, malformed
\* url) and a remove that returns an error (not found, busy, or the mountpoint
\* directory cannot be deleted) leave the registry, with its names, fields and
\* refCounts, and the state file unchanged; a create fails in no other way and
\* a remove in no other way.
C18_FailedCallChangesNothing ==
    [][\A p \in Procs :
          FailsIn(p) =>
              /\ volumes' = volumes
              /\ stateFile' = stateFile /\ saved' = saved
              /\ req'[p].saves = 0
              /\ req[p].op = "create" =>
                    req'[p].err \in {"unknown option", "url required", "url malformed"}
              /\ req[p].op = "remove" => req'[p].err \in {"not found", "busy", "io"}]_vars

C18_Witness ==
    \E p \in Procs :
        /\ Returning(p, "remove") /\ req[p].err = "io"
        /\ DOMAIN volumes = AllNames
        /\ \E n \in AllNames : volumes[n].connections > 0
        /\ stateFile.valid /\ stateFile.data # Marshal(volumes)

----------------------------------------------------------------------------
(* C19 *)

\* C19: a mount called at refCount 0 whose mountpoint path is found to exist
\* and not to be a directory fails with the not-a-directory error without
\* running the mount command and leaves refCount at 0; a mount that finds no
\* such path creates the directory before it runs the mount command, so the
\* command only ever runs on a directory.
C19_PathConflictOrDirectory ==
    /\ [](\A p \in Procs :
             (/\ Returning(p, "mount") /\ Present(req[p].name)
              /\ req[p].ref0 = 0 /\ fs[req[p].mp] = "file")
                 => /\ req[p].err \in {"not a directory", "io"}
                    /\ req[p].exec = "none"
                    /\ Conn(req[p].name) = 0)
    /\ [](\A p \in Procs : pc[p] = "mountVolume" => fs[req[p].mp] = "dir")
    /\ [][\A p \in Procs :
             (/\ pc[p] = "body" /\ req[p].op = "mount" /\ Present(req[p].name)
              /\ Conn(req[p].name) = 0) =>
                 LET mp == volumes[req[p].name].Mountpoint IN
                 /\ (fs[mp] = "file" /\ req'[p].err # "io")
                       => (pc'[p] = "unlock" /\ req'[p].err = "not a directory")
                 /\ (fs[mp] = "absent" /\ req'[p].err # "io")
                       => (pc'[p] = "mountVolume" /\ fs'[mp] = "dir")]_vars

C19_Witness ==
    \E p \in Procs :
        /\ Returning(p, "mount") /\ req[p].err = "not a directory"
        /\ req[p].ref0 = 0 /\ req[p].exec = "none" /\ fs[req[p].mp] = "file"
        /\ Len(hist) >= 2 /\ hist[Len(hist)].op = "mount" /\ hist[Len(hist)].err = "io"

----------------------------------------------------------------------------
(* C20 *)

\* p's Remove has run os.RemoveAll on the record's mountpoint: it returns
\* success, or the error of os.RemoveAll
RanRemoveAll(p) == Returning(p, "remove") /\ req[p].err \in {"", "io"}

\* C20: Remove never deletes recursively a mountpoint directory on which a
\* mount made by the mount command is still active; in particular a remove that
\* succeeds finds no such mount on the removed record's mountpoint.
C20_RemoveOnlyUnmounted ==
    \A p \in Procs : RanRemoveAll(p) => mounts[req[p].mp] = 0

----------------------------------------------------------------------------
(* C21 *)

\* C21: the mount command never runs on a mountpoint on which a mount it made
\* is still active, so that every mountpoint path carries at most one active
\* mount.
C21_OneMountPerMountpoint ==
    /\ \A p \in Procs : pc[p] = "mountVolume" => mounts[req[p].mp] = 0
    /\ \A m \in Mountpoints : mounts[m] <= 1

----------------------------------------------------------------------------
(* C22 *)

\* C22: in every state, a record whose refCount (connections) is > 0 has an
\* active mount of the mount command on its mountpoint.
C22_PositiveRefCountIsMounted ==
    \A n \in DOMAIN volumes :
        volumes[n].connections > 0 => mounts[volumes[n].Mountpoint] > 0

----------------------------------------------------------------------------
(* C23 *)

\* p holds d's lock, exclusively or shared
HoldsLock(p) == mutex.w = p \/ p \in mutex.r

\* C23: when the commands and filesystem calls end and scheduling is fair,
\* every handler that waits for the lock eventually gets it and every call
\* eventually returns; a handler holds the lock exactly from its acquisition to
\* its return, so that every return, with or without an error, has released it.
C23_EveryCallReturns ==
    /\ [](\A p \in LiveProcs : HoldsLock(p) <=> InCritical(p))
    /\ \A p \in LiveProcs : (pc[p] = "lock") ~> (pc[p] = "body")
    /\ \A p \in LiveProcs : (pc[p] # "idle") ~> (pc[p] = "idle")

C23_Witness ==
    \E p, q \in Procs :
        /\ pc[p] = "unmountVolume"
        /\ pc[q] = "lock" /\ req[q].op = "remove"
        /\ mutex.w = p

====
